---- MODULE Spec2Model ----
(***************************************************************************)
(* Model of the match simulation engine (Sim/engine.py, Sim/entities.py,   *)
(* Sim/config.py) and of the way Sim/gym_env.py constructs and drives it.  *)
(*                                                                         *)
(* Numbers.  The engine computes with floats; the model computes with the  *)
(* exact values, as integers in two fixed units:                           *)
(*   - a ball quantity (zone balls, inventory, score) is a whole number of *)
(*     1/BallScale balls;                                                  *)
(*   - a time quantity (time, dt, cooldown) is a whole number of ticks,    *)
(*     TicksPerSecond ticks to the second.                                 *)
(* A step whose intake transfer is not a whole number of 1/BallScale balls *)
(* lies outside the model's precision and is not taken (see step).         *)
(***************************************************************************)
EXTENDS Integers, Sequences, FiniteSets, TLC

VARIABLES
    time,             \* SimulationEngine.time, in ticks
    zones,            \* SimulationEngine.zones: zone name -> Zone.balls, in 1/BallScale balls
    robots,           \* SimulationEngine.robots: sequence of Robot records
    red_hub_status,   \* SimulationEngine.red_hub_status
    blue_hub_status,  \* SimulationEngine.blue_hub_status
    red_score,        \* SimulationEngine.red_score, in 1/BallScale balls
    blue_score,       \* SimulationEngine.blue_score, in 1/BallScale balls
    history,          \* the snapshots appended by step, the most recent ones (see step)
    history_len,      \* len(history_time): the number of snapshots appended so far
    last_call,        \* the call made last on the engine: [op, idx, arg]
    raised            \* the exception the last call raised, "" if it returned

vars == <<time, zones, robots, red_hub_status, blue_hub_status,
          red_score, blue_score, history, history_len, last_call, raised>>

(***************************************************************************)
(* Bounds of the model.                                                    *)
(***************************************************************************)
\* number of step calls of one match that the model follows
MaxSteps == 4
\* number of step calls of a match of two robots
DuoSteps == 2
\* BallScale = 84^Precision: how many intake transfers in a row stay exact
Precision == 1

(***************************************************************************)
(* config.py                                                               *)
(***************************************************************************)
TOTAL_BALLS == 504
MAX_INTAKE_RATE == 6
MATCH_DURATION == 160
AUTO_DURATION == 20
SHIFT_START_TIME == 30
SHIFT_DURATION == 25
ZONE_NEUTRAL == "Neutral"
ZONE_RED == "Red"
ZONE_BLUE == "Blue"
HUB_ACTIVE == "ACTIVE"
HUB_INACTIVE == "INACTIVE"

ZoneNames == {ZONE_RED, ZONE_BLUE, ZONE_NEUTRAL}

(***************************************************************************)
(* Units.                                                                  *)
(***************************************************************************)
RECURSIVE Pow(_, _)
Pow(b, e) == IF e = 0 THEN 1 ELSE b * Pow(b, e - 1)

RECURSIVE GCD(_, _)
GCD(a, b) == IF b = 0 THEN a ELSE GCD(b, a % b)

\* TOTAL_BALLS / MAX_INTAKE_RATE = 84: one second of intake at efficiency 1
\* moves 1/84 of the zone
BallScale == Pow(TOTAL_BALLS \div MAX_INTAKE_RATE, Precision)
\* fine enough for inventory / balls_shot_per_sec (rates 1 and 8) and for 0.1 s
TicksPerSecond == 40 * BallScale
Balls(n) == n * BallScale
\* a time given in tenths of a second, in ticks
Tenths(n) == n * (TicksPerSecond \div 10)
Seconds(n) == n * TicksPerSecond

Min(a, b) == IF a <= b THEN a ELSE b
Max(a, b) == IF a >= b THEN a ELSE b

(***************************************************************************)
(* entities.py: Robot                                                      *)
(***************************************************************************)
IDLE == "Idle"
INTAKING == "Intaking"
SHOOTING == "Shooting"
PASSING == "Passing"
\* f"Moving to {target_zone}"
MovingTo(target_zone) ==
    CASE target_zone = ZONE_RED -> "Moving to Red"
      [] target_zone = ZONE_BLUE -> "Moving to Blue"
      [] target_zone = ZONE_NEUTRAL -> "Moving to Neutral"
\* action.startswith("Moving")
IsMoving(action) == \E z \in ZoneNames : action = MovingTo(z)
\* action.split(" to ")[1]
MoveTarget(action) == CHOOSE z \in ZoneNames : action = MovingTo(z)

\* max(0.0, min(1.0, intake_efficiency)), the efficiency a fraction num/den
ClampEfficiency(e) ==
    IF e.num <= 0 THEN [num |-> 0, den |-> 1]
    ELSE IF e.num >= e.den THEN [num |-> 1, den |-> 1]
    ELSE e

\* Robot.__init__; cfg is one record of config.ROBOT_CONFIGS
Robot(team, id, cfg, start_zone, initial_inventory) ==
    [ team |-> team,
      id |-> id,
      capacity |-> cfg.capacity,
      transit_time |-> cfg.transit_time,
      balls_shot_per_sec |-> cfg.balls_shot_per_sec,
      intake_efficiency |-> ClampEfficiency(cfg.intake_efficiency),
      start_zone |-> start_zone,
      current_zone_name |-> start_zone,
      inventory |-> initial_inventory,
      action_cooldown |-> 0,
      current_action |-> IDLE ]

\* Robot.is_busy
is_busy(bot) == bot.action_cooldown > 0

\* update with the cooldown run down by 0.1 s whatever dt is
update_fixed_tick(bot, dt) ==
    IF bot.action_cooldown > 0
    THEN IF bot.action_cooldown - Tenths(1) <= 0
         THEN [bot EXCEPT !.action_cooldown = 0, !.current_action = IDLE]
         ELSE [bot EXCEPT !.action_cooldown = bot.action_cooldown - Tenths(1)]
    ELSE bot

\* Robot.update(dt)
update(bot, dt) ==
    IF bot.action_cooldown > 0
    THEN IF bot.action_cooldown - dt <= 0
         THEN [bot EXCEPT !.action_cooldown = 0, !.current_action = IDLE]
         ELSE [bot EXCEPT !.action_cooldown = bot.action_cooldown - dt]
    ELSE bot

\* set_action_transit with the robot put in the target zone at once
set_action_transit_teleports(bot, target_zone) ==
    [bot EXCEPT !.current_action = MovingTo(target_zone),
                !.action_cooldown = bot.transit_time,
                !.current_zone_name = target_zone]

\* Robot.set_action_transit
set_action_transit(bot, target_zone) ==
    [bot EXCEPT !.current_action = MovingTo(target_zone),
                !.action_cooldown = bot.transit_time]

\* Robot.set_action_shoot
set_action_shoot(bot) == [bot EXCEPT !.current_action = SHOOTING]

\* Robot.set_action_pass
set_action_pass(bot) == [bot EXCEPT !.current_action = PASSING]

(***************************************************************************)
(* gym_env.py: the robots LogisticsEnv.reset builds, and its inputs        *)
(***************************************************************************)
\* config.ROBOT_CONFIGS: the first default record, and two records as a YAML
\* file can give them (a small magazine, no shot rate, half efficiency; a
\* capacity of 0)
ROBOT_CONFIGS ==
    << [ capacity |-> Balls(30), transit_time |-> Seconds(2),
         balls_shot_per_sec |-> 8, intake_efficiency |-> [num |-> 1, den |-> 1] ],
       [ capacity |-> Balls(10), transit_time |-> Seconds(3),
         balls_shot_per_sec |-> 0, intake_efficiency |-> [num |-> 1, den |-> 2] ],
       [ capacity |-> 0, transit_time |-> Seconds(2),
         balls_shot_per_sec |-> 8, intake_efficiency |-> [num |-> 1, den |-> 1] ] >>

\* initial_inventory=8 of every robot of reset
InitialInventory == 8

\* the robots reset adds for a roster: a sequence of <<team, number>>, the
\* robot of that number of that alliance, with ROBOT_CONFIGS[number] and
\* starting in its alliance's zone
ResetRobots(roster) ==
    [k \in 1..Len(roster) |->
        Robot(roster[k][1], roster[k][2], ROBOT_CONFIGS[roster[k][2]],
              IF roster[k][1] = "Red" THEN ZONE_RED ELSE ZONE_BLUE,
              Balls(InitialInventory))]

\* total_preloaded counting one robot's preload only
total_preloaded_one_robot(roster) == Balls(InitialInventory)

\* total_preloaded of reset (48 for its six robots)
total_preloaded(roster) == Balls(InitialInventory) * Len(roster)

\* matches of one robot
SoloRosters ==
    { << <<"Red", 1>> >>, << <<"Blue", 2>> >> }
\* matches of one robot per alliance
DuoRosters == { << <<"Red", 1>>, <<"Blue", 1>> >> }

\* SIM_STEP and the other step sizes a driver uses, in tenths of a second
DtChoices == {10, 50, 250, 1000}
\* duration of command_intake (reset's driver uses 1.0), in tenths of a second
IntakeDurations == {0, 10, 30}

RobotIdx == 1..Len(robots)

(***************************************************************************)
(* engine.py: SimulationEngine                                             *)
(***************************************************************************)
\* SimulationEngine.__init__: the zones
InitialZones ==
    [z \in ZoneNames |-> IF z = ZONE_NEUTRAL THEN Balls(TOTAL_BALLS) ELSE 0]

\* intake_amount with the robot's intake_efficiency left out of the rate
intake_amount_full_efficiency(bot, balls, dt) ==
    LET n == MAX_INTAKE_RATE * dt
        d == TOTAL_BALLS * TicksPerSecond
        g == GCD(n, d)
        p == n \div g
        q == d \div g
        r == (balls % q) * p
    IN  [ whole |-> (balls \div q) * p + (r \div q), exact |-> r % q = 0 ]

\* intake_amount with the zone's density left out of the rate
\* (rate = intake_efficiency * MAX_INTAKE_RATE)
intake_amount_full_density(bot, balls, dt) ==
    LET n == bot.intake_efficiency.num * MAX_INTAKE_RATE * BallScale * dt
        d == bot.intake_efficiency.den * TicksPerSecond
    IN  [ whole |-> n \div d, exact |-> n % d = 0 ]

\* rate * dt of _process_intake, for a zone holding `balls`, with
\* rate = intake_efficiency * (balls / TOTAL_BALLS) * MAX_INTAKE_RATE
\* (calculate_intake_rate, get_zone_density): the exact value is
\* balls * p / q; whole is its integer part, exact says it has no other part
intake_amount(bot, balls, dt) ==
    LET n == bot.intake_efficiency.num * MAX_INTAKE_RATE * dt
        d == bot.intake_efficiency.den * TOTAL_BALLS * TicksPerSecond
        g == GCD(n, d)
        p == n \div g
        q == d \div g
        r == (balls % q) * p
    IN  [ whole |-> (balls \div q) * p + (r \div q), exact |-> r % q = 0 ]

\* amount <= x, for an amount as intake_amount gives it
AmountLeq(amount, x) == amount.whole < x \/ (amount.whole = x /\ amount.exact)

\* process_intake with the zone left as it was (the transfer only credits the robot)
process_intake_keeps_zone(st, i, dt) ==
    LET bot == st.robots[i]
        space == bot.capacity - bot.inventory
        possible_from_zone == st.zones[bot.current_zone_name]
        amount == intake_amount(bot, possible_from_zone, dt)
        is_amount == AmountLeq(amount, space) /\ AmountLeq(amount, possible_from_zone)
        actual_amount == IF is_amount THEN amount.whole
                         ELSE Min(space, possible_from_zone)
    IN  IF space <= 0 THEN st
        ELSE [st EXCEPT
                !.robots[i].inventory = bot.inventory + actual_amount,
                !.exact = st.exact /\ (is_amount => amount.exact)]

\* process_intake with the transfer clamped to the zone only, not to the
\* robot's free space
process_intake_ignores_space(st, i, dt) ==
    LET bot == st.robots[i]
        space == bot.capacity - bot.inventory
        possible_from_zone == st.zones[bot.current_zone_name]
        amount == intake_amount(bot, possible_from_zone, dt)
        is_amount == AmountLeq(amount, possible_from_zone)
        actual_amount == IF is_amount THEN amount.whole ELSE possible_from_zone
    IN  IF space <= 0 THEN st
        ELSE [st EXCEPT
                !.zones[bot.current_zone_name] = possible_from_zone - actual_amount,
                !.robots[i].inventory = bot.inventory + actual_amount,
                !.exact = st.exact /\ (is_amount => amount.exact)]

\* _process_intake(bot, dt) on the engine state st, bot the i-th robot
process_intake(st, i, dt) ==
    LET bot == st.robots[i]
        space == bot.capacity - bot.inventory
        possible_from_zone == st.zones[bot.current_zone_name]
        amount == intake_amount(bot, possible_from_zone, dt)
        \* min(amount, space, possible_from_zone)
        is_amount == AmountLeq(amount, space) /\ AmountLeq(amount, possible_from_zone)
        actual_amount == IF is_amount THEN amount.whole
                         ELSE Min(space, possible_from_zone)
    IN  IF space <= 0 THEN st
        ELSE [st EXCEPT
                !.zones[bot.current_zone_name] = possible_from_zone - actual_amount,
                !.robots[i].inventory = bot.inventory + actual_amount,
                !.exact = st.exact /\ (is_amount => amount.exact)]

\* on_action_complete with a shot scored whatever the hub status
on_action_complete_scores_always(st, i, action_name) ==
    LET bot == st.robots[i]
        count == bot.inventory
        done ==
          IF IsMoving(action_name)
          THEN [st EXCEPT !.robots[i].current_zone_name = MoveTarget(action_name)]
          ELSE IF action_name = SHOOTING
          THEN LET scored ==
                     IF bot.team = "Red"
                     THEN [st EXCEPT !.red_score = st.red_score + count]
                     ELSE [st EXCEPT !.blue_score = st.blue_score + count]
               IN  [scored EXCEPT
                      !.robots[i].inventory = 0,
                      !.zones[ZONE_NEUTRAL] = st.zones[ZONE_NEUTRAL] + count]
          ELSE IF action_name = PASSING
          THEN LET target_zone == IF bot.team = "Red" THEN ZONE_RED ELSE ZONE_BLUE
               IN  [st EXCEPT
                      !.robots[i].inventory = 0,
                      !.zones[target_zone] = st.zones[target_zone] + count]
          ELSE st
    IN  [done EXCEPT !.robots[i].current_action = IDLE]

\* on_action_complete with the points assigned to the score, not added
on_action_complete_score_assigned(st, i, action_name) ==
    LET bot == st.robots[i]
        count == bot.inventory
        done ==
          IF IsMoving(action_name)
          THEN [st EXCEPT !.robots[i].current_zone_name = MoveTarget(action_name)]
          ELSE IF action_name = SHOOTING
          THEN LET scored ==
                     IF bot.team = "Red" /\ st.red_hub_status = HUB_ACTIVE
                     THEN [st EXCEPT !.red_score = count]
                     ELSE IF bot.team = "Blue" /\ st.blue_hub_status = HUB_ACTIVE
                     THEN [st EXCEPT !.blue_score = count]
                     ELSE st
               IN  [scored EXCEPT
                      !.robots[i].inventory = 0,
                      !.zones[ZONE_NEUTRAL] = st.zones[ZONE_NEUTRAL] + count]
          ELSE IF action_name = PASSING
          THEN LET target_zone == IF bot.team = "Red" THEN ZONE_RED ELSE ZONE_BLUE
               IN  [st EXCEPT
                      !.robots[i].inventory = 0,
                      !.zones[target_zone] = st.zones[target_zone] + count]
          ELSE st
    IN  [done EXCEPT !.robots[i].current_action = IDLE]

\* on_action_complete with every pass delivered to the Red zone
on_action_complete_pass_to_red(st, i, action_name) ==
    LET bot == st.robots[i]
        count == bot.inventory
        done ==
          IF IsMoving(action_name)
          THEN [st EXCEPT !.robots[i].current_zone_name = MoveTarget(action_name)]
          ELSE IF action_name = SHOOTING
          THEN LET scored ==
                     IF bot.team = "Red" /\ st.red_hub_status = HUB_ACTIVE
                     THEN [st EXCEPT !.red_score = st.red_score + count]
                     ELSE IF bot.team = "Blue" /\ st.blue_hub_status = HUB_ACTIVE
                     THEN [st EXCEPT !.blue_score = st.blue_score + count]
                     ELSE st
               IN  [scored EXCEPT
                      !.robots[i].inventory = 0,
                      !.zones[ZONE_NEUTRAL] = st.zones[ZONE_NEUTRAL] + count]
          ELSE IF action_name = PASSING
          THEN LET target_zone == ZONE_RED
               IN  [st EXCEPT
                      !.robots[i].inventory = 0,
                      !.zones[target_zone] = st.zones[target_zone] + count]
          ELSE st
    IN  [done EXCEPT !.robots[i].current_action = IDLE]

\* _on_action_complete(bot, action_name) on the engine state st
on_action_complete(st, i, action_name) ==
    LET bot == st.robots[i]
        count == bot.inventory
        done ==
          IF IsMoving(action_name)
          THEN [st EXCEPT !.robots[i].current_zone_name = MoveTarget(action_name)]
          ELSE IF action_name = SHOOTING
          THEN LET scored ==
                     IF bot.team = "Red" /\ st.red_hub_status = HUB_ACTIVE
                     THEN [st EXCEPT !.red_score = st.red_score + count]
                     ELSE IF bot.team = "Blue" /\ st.blue_hub_status = HUB_ACTIVE
                     THEN [st EXCEPT !.blue_score = st.blue_score + count]
                     ELSE st
               IN  [scored EXCEPT
                      !.robots[i].inventory = 0,
                      !.zones[ZONE_NEUTRAL] = st.zones[ZONE_NEUTRAL] + count]
          ELSE IF action_name = PASSING
          THEN LET target_zone == IF bot.team = "Red" THEN ZONE_RED ELSE ZONE_BLUE
               IN  [st EXCEPT
                      !.robots[i].inventory = 0,
                      !.zones[target_zone] = st.zones[target_zone] + count]
          ELSE st
    IN  [done EXCEPT !.robots[i].current_action = IDLE]

\* update_hub_status with the endgame starting after, not at, 30 s to go
update_hub_status_late_endgame(st) ==
    LET both == [st EXCEPT !.red_hub_status = HUB_ACTIVE,
                           !.blue_hub_status = HUB_ACTIVE]
        teleop_time == st.time - Seconds(SHIFT_START_TIME)
        shift_index == teleop_time \div Seconds(SHIFT_DURATION)
    IN  IF Seconds(MATCH_DURATION) - st.time < Seconds(30) THEN both
        ELSE IF st.time <= Seconds(AUTO_DURATION) THEN both
        ELSE IF teleop_time < 0 THEN st
        ELSE IF shift_index % 2 = 0
        THEN [st EXCEPT !.red_hub_status = HUB_ACTIVE,
                        !.blue_hub_status = HUB_INACTIVE]
        ELSE [st EXCEPT !.red_hub_status = HUB_INACTIVE,
                        !.blue_hub_status = HUB_ACTIVE]

\* update_hub_status with the last 30 s ending at MATCH_DURATION: the shifts
\* go on after it
update_hub_status_match_end(st) ==
    LET both == [st EXCEPT !.red_hub_status = HUB_ACTIVE,
                           !.blue_hub_status = HUB_ACTIVE]
        teleop_time == st.time - Seconds(SHIFT_START_TIME)
        shift_index == teleop_time \div Seconds(SHIFT_DURATION)
    IN  IF /\ Seconds(MATCH_DURATION) - st.time <= Seconds(30)
           /\ Seconds(MATCH_DURATION) - st.time >= 0
        THEN both
        ELSE IF st.time <= Seconds(AUTO_DURATION) THEN both
        ELSE IF teleop_time < 0 THEN st
        ELSE IF shift_index % 2 = 0
        THEN [st EXCEPT !.red_hub_status = HUB_ACTIVE,
                        !.blue_hub_status = HUB_INACTIVE]
        ELSE [st EXCEPT !.red_hub_status = HUB_INACTIVE,
                        !.blue_hub_status = HUB_ACTIVE]

\* update_hub_status with the statuses left as they are in the last 30 s
update_hub_status_endgame_kept(st) ==
    LET both == [st EXCEPT !.red_hub_status = HUB_ACTIVE,
                           !.blue_hub_status = HUB_ACTIVE]
        teleop_time == st.time - Seconds(SHIFT_START_TIME)
        shift_index == teleop_time \div Seconds(SHIFT_DURATION)
    IN  IF Seconds(MATCH_DURATION) - st.time <= Seconds(30) THEN st
        ELSE IF st.time <= Seconds(AUTO_DURATION) THEN both
        ELSE IF teleop_time < 0 THEN st
        ELSE IF shift_index % 2 = 0
        THEN [st EXCEPT !.red_hub_status = HUB_ACTIVE,
                        !.blue_hub_status = HUB_INACTIVE]
        ELSE [st EXCEPT !.red_hub_status = HUB_INACTIVE,
                        !.blue_hub_status = HUB_ACTIVE]

\* update_hub_status without the test of teleop_time < 0: the shifts are
\* counted back into the time between AUTO_DURATION and SHIFT_START_TIME
update_hub_status_no_gap(st) ==
    LET both == [st EXCEPT !.red_hub_status = HUB_ACTIVE,
                           !.blue_hub_status = HUB_ACTIVE]
        teleop_time == st.time - Seconds(SHIFT_START_TIME)
        shift_index == teleop_time \div Seconds(SHIFT_DURATION)
    IN  IF Seconds(MATCH_DURATION) - st.time <= Seconds(30) THEN both
        ELSE IF st.time <= Seconds(AUTO_DURATION) THEN both
        ELSE IF shift_index % 2 = 0
        THEN [st EXCEPT !.red_hub_status = HUB_ACTIVE,
                        !.blue_hub_status = HUB_INACTIVE]
        ELSE [st EXCEPT !.red_hub_status = HUB_INACTIVE,
                        !.blue_hub_status = HUB_ACTIVE]

\* _update_hub_status on the engine state st (st.time already advanced)
update_hub_status(st) ==
    LET both == [st EXCEPT !.red_hub_status = HUB_ACTIVE,
                           !.blue_hub_status = HUB_ACTIVE]
        teleop_time == st.time - Seconds(SHIFT_START_TIME)
        shift_index == teleop_time \div Seconds(SHIFT_DURATION)
    IN  IF Seconds(MATCH_DURATION) - st.time <= Seconds(30) THEN both
        ELSE IF st.time <= Seconds(AUTO_DURATION) THEN both
        ELSE IF teleop_time < 0 THEN st
        ELSE IF shift_index % 2 = 0
        THEN [st EXCEPT !.red_hub_status = HUB_ACTIVE,
                        !.blue_hub_status = HUB_INACTIVE]
        ELSE [st EXCEPT !.red_hub_status = HUB_INACTIVE,
                        !.blue_hub_status = HUB_ACTIVE]

\* step_robot with the completion dispatched on the action of after update
step_robot_dispatch_after(st, i, dt) ==
    LET bot == st.robots[i]
        prev_cooldown == bot.action_cooldown
        s1 == IF bot.current_action = INTAKING /\ bot.action_cooldown > 0
              THEN process_intake(st, i, dt)
              ELSE st
        s2 == [s1 EXCEPT !.robots[i] = update(s1.robots[i], dt)]
    IN  IF prev_cooldown > 0 /\ s2.robots[i].action_cooldown <= 0
        THEN on_action_complete(s2, i, s2.robots[i].current_action)
        ELSE s2

\* step_robot with the intake transfer made for a robot that is not busy too
step_robot_intakes_free(st, i, dt) ==
    LET bot == st.robots[i]
        prev_cooldown == bot.action_cooldown
        action_being_performed == bot.current_action
        s1 == IF bot.current_action = INTAKING
              THEN process_intake(st, i, dt)
              ELSE st
        s2 == [s1 EXCEPT !.robots[i] = update(s1.robots[i], dt)]
    IN  IF prev_cooldown > 0 /\ s2.robots[i].action_cooldown <= 0
        THEN on_action_complete(s2, i, action_being_performed)
        ELSE s2

\* the body of step's loop "for bot in self.robots", for the i-th robot
step_robot(st, i, dt) ==
    LET bot == st.robots[i]
        prev_cooldown == bot.action_cooldown
        action_being_performed == bot.current_action
        s1 == IF bot.current_action = INTAKING /\ bot.action_cooldown > 0
              THEN process_intake(st, i, dt)
              ELSE st
        s2 == [s1 EXCEPT !.robots[i] = update(s1.robots[i], dt)]
    IN  IF prev_cooldown > 0 /\ s2.robots[i].action_cooldown <= 0
        THEN on_action_complete(s2, i, action_being_performed)
        ELSE s2

\* step's loop over the robots, in list order, from the i-th robot on
RECURSIVE step_robots(_, _, _)
step_robots(st, i, dt) ==
    IF i > Len(st.robots) THEN st
    ELSE step_robots(step_robot(st, i, dt), i + 1, dt)

\* the engine's fields as one record
EngineState ==
    [ time |-> time, zones |-> zones, robots |-> robots,
      red_hub_status |-> red_hub_status, blue_hub_status |-> blue_hub_status,
      red_score |-> red_score, blue_score |-> blue_score, exact |-> TRUE ]

\* Snapshot with the scores left out (recorded as 0)
Snapshot_without_scores(st) ==
    [ time |-> st.time,
      red |-> st.zones[ZONE_RED],
      neutral |-> st.zones[ZONE_NEUTRAL],
      blue |-> st.zones[ZONE_BLUE],
      robot_states |->
        [i \in 1..Len(st.robots) |->
           [ robot_idx |-> i,
             team |-> st.robots[i].team,
             zone |-> st.robots[i].current_zone_name,
             action |-> st.robots[i].current_action,
             inventory |-> st.robots[i].inventory,
             cooldown |-> st.robots[i].action_cooldown ]],
      hub_red |-> st.red_hub_status,
      hub_blue |-> st.blue_hub_status,
      score_red |-> 0,
      score_blue |-> 0 ]

\* the entries step appends to the history_* lists, as one record
Snapshot(st) ==
    [ time |-> st.time,
      red |-> st.zones[ZONE_RED],
      neutral |-> st.zones[ZONE_NEUTRAL],
      blue |-> st.zones[ZONE_BLUE],
      robot_states |->
        [i \in 1..Len(st.robots) |->
           [ robot_idx |-> i,
             team |-> st.robots[i].team,
             zone |-> st.robots[i].current_zone_name,
             action |-> st.robots[i].current_action,
             inventory |-> st.robots[i].inventory,
             cooldown |-> st.robots[i].action_cooldown ]],
      hub_red |-> st.red_hub_status,
      hub_blue |-> st.blue_hub_status,
      score_red |-> st.red_score,
      score_blue |-> st.blue_score ]

\* the last `keep` entries of a log
LastEntries(log, keep) ==
    IF Len(log) <= keep THEN log
    ELSE SubSeq(log, Len(log) - keep + 1, Len(log))

\* step_result with the hub status recomputed after the robots are processed
step_result_hub_last(st, dt) ==
    update_hub_status(step_robots([st EXCEPT !.time = st.time + dt], 1, dt))

\* step's loop over the robots taken from the last robot to the first
RECURSIVE step_robots_reversed(_, _, _)
step_robots_reversed(st, i, dt) ==
    IF i < 1 THEN st
    ELSE step_robots_reversed(step_robot(st, i, dt), i - 1, dt)

\* step_result with the robots processed in reverse list order
step_result_reversed(st, dt) ==
    step_robots_reversed(update_hub_status([st EXCEPT !.time = st.time + dt]),
                         Len(st.robots), dt)

\* the engine state step(dt) leaves, before the snapshot
step_result(st, dt) ==
    step_robots(update_hub_status([st EXCEPT !.time = st.time + dt]), 1, dt)

\* SimulationEngine.step(dt).  The engine never reads its history: the model
\* keeps the number of snapshots and the `keep` most recent ones.
step(dt, keep) ==
    LET st == step_result(EngineState, dt)
    IN  /\ history_len < MaxSteps
        /\ st.exact
        /\ time' = st.time
        /\ zones' = st.zones
        /\ robots' = st.robots
        /\ red_hub_status' = st.red_hub_status
        /\ blue_hub_status' = st.blue_hub_status
        /\ red_score' = st.red_score
        /\ blue_score' = st.blue_score
        /\ history' = LastEntries(Append(history, Snapshot(st)), keep)
        /\ history_len' = history_len + 1
        /\ last_call' = [op |-> "step", idx |-> 0, arg |-> dt]
        /\ raised' = ""

\* the place in the list that Python's self.robots[robot_idx] reads.  The
\* model counts places from 1, so robot_idx is Python's index plus one: a
\* Python index of -1 .. -len is counted from the end of the list, and any
\* other index outside the list raises IndexError (place 0 here).
Subscript(bots, robot_idx) ==
    IF robot_idx \in 1..Len(bots) THEN robot_idx
    ELSE IF robot_idx \in (1 - Len(bots))..0 THEN Len(bots) + robot_idx
    ELSE 0

\* move_result with the rule against Red -> Blue only
move_result_one_way(bots, robot_idx, target_zone) ==
    LET k == Subscript(bots, robot_idx)
        bot == bots[k]
        current == bot.current_zone_name
    IN  IF is_busy(bot) THEN bots
        ELSE IF current = ZONE_RED /\ target_zone = ZONE_BLUE THEN bots
        ELSE [bots EXCEPT ![k] = set_action_transit(bot, target_zone)]

\* move_result without the rule against Red <-> Blue
move_result_crossing(bots, robot_idx, target_zone) ==
    LET bot == bots[robot_idx]
    IN  IF is_busy(bot) THEN bots
        ELSE [bots EXCEPT ![robot_idx] = set_action_transit(bot, target_zone)]

\* the robot list after command_move(robot_idx, target_zone)
move_result(bots, robot_idx, target_zone) ==
    LET k == Subscript(bots, robot_idx)
        bot == bots[k]
        current == bot.current_zone_name
    IN  IF is_busy(bot) THEN bots
        ELSE IF (current = ZONE_RED /\ target_zone = ZONE_BLUE)
                \/ (current = ZONE_BLUE /\ target_zone = ZONE_RED)
        THEN bots
        ELSE [bots EXCEPT ![k] = set_action_transit(bot, target_zone)]

\* intake_result with the command turned down for a robot that is full
intake_result_rejects_full(bots, robot_idx, duration) ==
    LET k == Subscript(bots, robot_idx)
        bot == bots[k]
    IN  IF is_busy(bot) THEN bots
        ELSE IF bot.inventory >= bot.capacity THEN bots
        ELSE [bots EXCEPT ![k].current_action = INTAKING,
                          ![k].action_cooldown = duration]

\* intake_result without the is_busy test
intake_result_when_busy(bots, robot_idx, duration) ==
    [bots EXCEPT ![robot_idx].current_action = INTAKING,
                 ![robot_idx].action_cooldown = duration]

\* the robot list after command_intake(robot_idx, duration)
intake_result(bots, robot_idx, duration) ==
    LET k == Subscript(bots, robot_idx)
        bot == bots[k]
    IN  IF is_busy(bot) THEN bots
        ELSE [bots EXCEPT ![k].current_action = INTAKING,
                          ![k].action_cooldown = duration]

\* shot_duration without the minimum of 0.1 s
shot_duration_no_floor(bot) ==
    LET rate == IF bot.balls_shot_per_sec > 0 THEN bot.balls_shot_per_sec ELSE 1
    IN  (bot.inventory * (TicksPerSecond \div BallScale)) \div rate

\* duration of command_shoot and command_pass, in ticks:
\* inventory / rate seconds, at least 0.1 s
shot_duration(bot) ==
    LET rate == IF bot.balls_shot_per_sec > 0 THEN bot.balls_shot_per_sec ELSE 1
        duration == (bot.inventory * (TicksPerSecond \div BallScale)) \div rate
    IN  IF duration < Tenths(1) THEN Tenths(1) ELSE duration

\* shoot_result without the home zone rule
shoot_result_anywhere(bots, robot_idx) ==
    LET bot == bots[robot_idx]
    IN  IF is_busy(bot) THEN bots
        ELSE [bots EXCEPT ![robot_idx] =
                set_action_shoot([bot EXCEPT !.action_cooldown = shot_duration(bot)])]

\* shoot_result with the magazine emptied when the command is given
shoot_result_empties(bots, robot_idx) ==
    LET k == Subscript(bots, robot_idx)
        bot == bots[k]
    IN  IF is_busy(bot) THEN bots
        ELSE IF bot.current_zone_name /= bot.start_zone THEN bots
        ELSE [bots EXCEPT ![k] =
                [set_action_shoot([bot EXCEPT !.action_cooldown = shot_duration(bot)])
                   EXCEPT !.inventory = 0]]

\* the robot list after command_shoot(robot_idx)
shoot_result(bots, robot_idx) ==
    LET k == Subscript(bots, robot_idx)
        bot == bots[k]
    IN  IF is_busy(bot) THEN bots
        ELSE IF bot.current_zone_name /= bot.start_zone THEN bots
        ELSE [bots EXCEPT ![k] =
                set_action_shoot([bot EXCEPT !.action_cooldown = shot_duration(bot)])]

\* pass_result without the home zone rule
pass_result_anywhere(bots, robot_idx) ==
    LET bot == bots[robot_idx]
    IN  IF is_busy(bot) THEN bots
        ELSE [bots EXCEPT ![robot_idx] =
                set_action_pass([bot EXCEPT !.action_cooldown = shot_duration(bot)])]

\* the robot list after command_pass(robot_idx)
pass_result(bots, robot_idx) ==
    LET k == Subscript(bots, robot_idx)
        bot == bots[k]
    IN  IF is_busy(bot) THEN bots
        ELSE IF bot.current_zone_name = bot.start_zone THEN bots
        ELSE [bots EXCEPT ![k] =
                set_action_pass([bot EXCEPT !.action_cooldown = shot_duration(bot)])]

EngineUnchanged ==
    UNCHANGED <<time, zones, red_hub_status, blue_hub_status,
                red_score, blue_score, history, history_len>>

\* SimulationEngine.command_move
command_move(robot_idx, target_zone) ==
    /\ IF Subscript(robots, robot_idx) = 0
       THEN raised' = "IndexError" /\ robots' = robots
       ELSE raised' = "" /\ robots' = move_result(robots, robot_idx, target_zone)
    /\ last_call' = [op |-> "move", idx |-> robot_idx, arg |-> target_zone]
    /\ EngineUnchanged

\* SimulationEngine.command_intake
command_intake(robot_idx, duration) ==
    /\ IF Subscript(robots, robot_idx) = 0
       THEN raised' = "IndexError" /\ robots' = robots
       ELSE raised' = "" /\ robots' = intake_result(robots, robot_idx, duration)
    /\ last_call' = [op |-> "intake", idx |-> robot_idx, arg |-> duration]
    /\ EngineUnchanged

\* SimulationEngine.command_shoot
command_shoot(robot_idx) ==
    /\ IF Subscript(robots, robot_idx) = 0
       THEN raised' = "IndexError" /\ robots' = robots
       ELSE raised' = "" /\ robots' = shoot_result(robots, robot_idx)
    /\ last_call' = [op |-> "shoot", idx |-> robot_idx, arg |-> 0]
    /\ EngineUnchanged

\* SimulationEngine.command_pass
command_pass(robot_idx) ==
    /\ IF Subscript(robots, robot_idx) = 0
       THEN raised' = "IndexError" /\ robots' = robots
       ELSE raised' = "" /\ robots' = pass_result(robots, robot_idx)
    /\ last_call' = [op |-> "pass", idx |-> robot_idx, arg |-> 0]
    /\ EngineUnchanged

(***************************************************************************)
(* The match: LogisticsEnv.reset, then commands and steps in any order.    *)
(***************************************************************************)
\* LogisticsEnv.reset: a fresh engine, the robots added, the preload taken
\* out of Neutral
reset(roster) ==
    /\ time = 0
    /\ zones = [InitialZones EXCEPT ![ZONE_NEUTRAL] = @ - total_preloaded(roster)]
    /\ robots = ResetRobots(roster)
    /\ red_hub_status = HUB_ACTIVE
    /\ blue_hub_status = HUB_ACTIVE
    /\ red_score = 0
    /\ blue_score = 0
    /\ history = << >>
    /\ history_len = 0
    /\ last_call = [op |-> "reset", idx |-> 0, arg |-> 0]
    /\ raised = ""

Init == \E roster \in SoloRosters : reset(roster)

Move == \E i \in RobotIdx, z \in ZoneNames : command_move(i, z)
Intake == \E i \in RobotIdx, d \in IntakeDurations : command_intake(i, Tenths(d))
Shoot == \E i \in RobotIdx : command_shoot(i)
Pass == \E i \in RobotIdx : command_pass(i)
Advance == \E dt \in DtChoices : step(Tenths(dt), 1)

Next == Move \/ Intake \/ Shoot \/ Pass \/ Advance

Spec == Init /\ [][Next]_vars

(***************************************************************************)
(* The same match driven by a caller that keeps to no precondition: any    *)
(* dt, any robot index, any capacity in the configuration, any starting    *)
(* zone.                                                                   *)
(***************************************************************************)
\* the robots of a driver that gives Robot a starting zone of its choice:
\* roster is a sequence of <<team, number, start_zone>>
PlacedRobots(roster) ==
    [k \in 1..Len(roster) |->
        Robot(roster[k][1], roster[k][2], ROBOT_CONFIGS[roster[k][2]],
              roster[k][3], Balls(InitialInventory))]

\* a match of one Red robot that starts in Neutral
PlacedRosters == { << <<"Red", 1, ZONE_NEUTRAL>> >> }

\* a fresh engine with the robots of such a driver, the preload taken out
\* of Neutral as reset does
placed(roster) ==
    /\ time = 0
    /\ zones = [InitialZones EXCEPT
                  ![ZONE_NEUTRAL] = @ - Balls(InitialInventory) * Len(roster)]
    /\ robots = PlacedRobots(roster)
    /\ red_hub_status = HUB_ACTIVE
    /\ blue_hub_status = HUB_ACTIVE
    /\ red_score = 0
    /\ blue_score = 0
    /\ history = << >>
    /\ history_len = 0
    /\ last_call = [op |-> "reset", idx |-> 0, arg |-> 0]
    /\ raised = ""

\* a match of one robot whose configuration gives capacity 0
NoCapacityRosters == { << <<"Red", 3>> >> }
\* steps of -1 s, 0 s and 1 s, in tenths of a second
AnyDt == {-10, 0, 10}
\* robot_idx from one before Python's -len to one past the list
AnyIdx == (-Len(robots))..(Len(robots) + 1)

InitAny ==
    \/ \E roster \in SoloRosters \cup NoCapacityRosters : reset(roster)
    \/ \E roster \in PlacedRosters : placed(roster)

MoveAny == \E i \in AnyIdx, z \in ZoneNames : command_move(i, z)
IntakeAny == \E i \in AnyIdx, d \in IntakeDurations : command_intake(i, Tenths(d))
ShootAny == \E i \in AnyIdx : command_shoot(i)
PassAny == \E i \in AnyIdx : command_pass(i)
AdvanceAny == \E dt \in AnyDt : step(Tenths(dt), 1)

NextAny == MoveAny \/ IntakeAny \/ ShootAny \/ PassAny \/ AdvanceAny

SpecAny == InitAny /\ [][NextAny]_vars

(***************************************************************************)
(* A match of one robot per alliance, with the whole history kept.         *)
(***************************************************************************)
\* SIM_STEP and a step of 5 s, in tenths of a second
DuoDt == {10, 50}
\* duration=1.0 of the driver's command_intake, in tenths of a second
DuoIntakeDurations == {10}

InitDuo == \E roster \in DuoRosters : reset(roster)

MoveDuo == \E i \in RobotIdx, z \in ZoneNames : command_move(i, z)
IntakeDuo == \E i \in RobotIdx, d \in DuoIntakeDurations : command_intake(i, Tenths(d))
ShootDuo == \E i \in RobotIdx : command_shoot(i)
PassDuo == \E i \in RobotIdx : command_pass(i)
AdvanceDuo ==
    /\ history_len < DuoSteps
    /\ \E dt \in DuoDt : step(Tenths(dt), DuoSteps)

NextDuo == MoveDuo \/ IntakeDuo \/ ShootDuo \/ PassDuo \/ AdvanceDuo

SpecDuo == InitDuo /\ [][NextDuo]_vars

(***************************************************************************)
(* Properties.                                                             *)
(***************************************************************************)
Commands == {"move", "intake", "shoot", "pass"}

\* sum of the inventory fields of the first n entries of a sequence of
\* robots or of robot snapshots
RECURSIVE SumInventory(_, _)
SumInventory(entries, n) ==
    IF n = 0 THEN 0 ELSE entries[n].inventory + SumInventory(entries, n - 1)

\* C1 (Conservation): in every state, and in every snapshot of the history,
\* the balls of the three zones plus the inventories of all robots are
\* TOTAL_BALLS.
C1_Conservation ==
    /\ zones[ZONE_RED] + zones[ZONE_BLUE] + zones[ZONE_NEUTRAL]
         + SumInventory(robots, Len(robots)) = Balls(TOTAL_BALLS)
    /\ \A k \in 1..Len(history) :
         history[k].red + history[k].blue + history[k].neutral
           + SumInventory(history[k].robot_states, Len(history[k].robot_states))
         = Balls(TOTAL_BALLS)

\* a snapshot taken after a pass filled an alliance zone and an intake drew
\* from Neutral
C1_Witness ==
    /\ Len(history) > 0
    /\ LET h == history[Len(history)]
       IN  /\ h.red + h.blue > 0
           /\ h.neutral < Balls(TOTAL_BALLS - InitialInventory)
           /\ h.robot_states[1].inventory > 0

\* C2 (Busy exclusion): a move, intake, shoot or pass issued to a robot whose
\* action_cooldown is > 0 leaves its current_action and action_cooldown as
\* they were.
C2_BusyExclusion ==
    [][\A i \in RobotIdx :
         (is_busy(robots[i]) /\ last_call'.op \in Commands /\ last_call'.idx = i)
         => /\ robots'[i].current_action = robots[i].current_action
            /\ robots'[i].action_cooldown = robots[i].action_cooldown]_vars

\* the last call was an intake on a robot that is still busy shooting
C2_Witness ==
    /\ last_call.op = "intake"
    /\ robots[last_call.idx].current_action = SHOOTING
    /\ is_busy(robots[last_call.idx])

\* C3 (No direct alliance crossing): move(robot, Blue) for a robot in Red and
\* move(robot, Red) for a robot in Blue leave the robot's action and cooldown
\* as they were, whatever the rest of the state.
C3_NoDirectCrossing ==
    [][\A i \in RobotIdx :
         ( /\ last_call'.op = "move" /\ last_call'.idx = i
           /\ \/ robots[i].current_zone_name = ZONE_RED /\ last_call'.arg = ZONE_BLUE
              \/ robots[i].current_zone_name = ZONE_BLUE /\ last_call'.arg = ZONE_RED )
         => /\ robots'[i].current_action = robots[i].current_action
            /\ robots'[i].action_cooldown = robots[i].action_cooldown]_vars

\* the last call was move(robot, Blue) on a robot that is idle in Red, back
\* from Neutral with an emptied magazine
C3_Witness ==
    /\ last_call.op = "move" /\ last_call.arg = ZONE_BLUE
    /\ robots[last_call.idx].current_zone_name = ZONE_RED
    /\ robots[last_call.idx].current_action = IDLE
    /\ robots[last_call.idx].inventory = 0

\* the step is a call of step
StepCalled == history_len' = history_len + 1

\* the i-th robot's action completes in a step of dt = time' - time
Completes(i) ==
    /\ StepCalled
    /\ robots[i].action_cooldown > 0
    /\ time' - time >= robots[i].action_cooldown

\* no robot but the i-th is busy: the step leaves the others as they are
OthersIdle(i) == \A j \in RobotIdx \ {i} : ~is_busy(robots[j])

\* C4 (Scoring gating): when a Shooting action completes in a step, the
\* robot's inventory becomes 0 and Neutral grows by the pre-shot inventory;
\* the alliance's score grows by the pre-shot inventory if its hub is Active
\* and is unchanged if its hub is Inactive; the other score is unchanged.
C4_ScoringGating ==
    [][\A i \in RobotIdx :
         (Completes(i) /\ robots[i].current_action = SHOOTING /\ OthersIdle(i))
         => LET count == robots[i].inventory
                red == robots[i].team = "Red"
                hub == IF red THEN red_hub_status' ELSE blue_hub_status'
                points == IF hub = HUB_ACTIVE THEN count ELSE 0
            IN  /\ robots'[i].inventory = 0
                /\ zones'[ZONE_NEUTRAL] = zones[ZONE_NEUTRAL] + count
                /\ red_score' = red_score + (IF red THEN points ELSE 0)
                /\ blue_score' = blue_score + (IF red THEN 0 ELSE points)]_vars

\* after a step a robot stands empty at home under an Inactive hub, every
\* ball is in Neutral and nothing was ever scored: its magazine went through
\* the Inactive hub
C4_Witness ==
    /\ last_call.op = "step"
    /\ zones[ZONE_NEUTRAL] = Balls(TOTAL_BALLS)
    /\ red_score = 0 /\ blue_score = 0
    /\ \E i \in RobotIdx :
         /\ robots[i].inventory = 0
         /\ robots[i].current_zone_name = robots[i].start_zone
         /\ (IF robots[i].team = "Red" THEN red_hub_status ELSE blue_hub_status)
              = HUB_INACTIVE

\* C5 (Hub schedule): after a step that leaves time = t seconds, both hubs
\* are Active if t >= 130 or t <= 20; for 30 <= t < 130 Red alone is Active
\* when floor((t - 30) / 25) is even and Blue alone when it is odd.
C5_HubSchedule ==
    history_len > 0 =>
      /\ (time >= Seconds(130) \/ time <= Seconds(20))
           => (red_hub_status = HUB_ACTIVE /\ blue_hub_status = HUB_ACTIVE)
      /\ (time >= Seconds(30) /\ time < Seconds(130))
           => IF ((time - Seconds(30)) \div Seconds(25)) % 2 = 0
              THEN red_hub_status = HUB_ACTIVE /\ blue_hub_status = HUB_INACTIVE
              ELSE red_hub_status = HUB_INACTIVE /\ blue_hub_status = HUB_ACTIVE

\* a step left time = 55: Red Inactive, Blue Active
C5_Witness ==
    /\ last_call.op = "step"
    /\ time = Seconds(55)
    /\ red_hub_status = HUB_INACTIVE
    /\ blue_hub_status = HUB_ACTIVE

\* C6 (Bounds): every zone has balls >= 0 and every robot has
\* 0 <= inventory <= capacity.
C6_Bounds ==
    /\ \A z \in ZoneNames : zones[z] >= 0
    /\ \A i \in RobotIdx :
         robots[i].inventory >= 0 /\ robots[i].inventory <= robots[i].capacity

\* an intake has filled a robot to its capacity
C6_Witness ==
    /\ last_call.op = "step"
    /\ \E i \in RobotIdx :
         /\ robots[i].inventory = robots[i].capacity
         /\ zones[robots[i].current_zone_name] > 0

\* rate * dt of an intake is balls * RateNum / RateDen, in lowest terms, for
\* a robot of efficiency eff and a step of dt
RateNum(eff, dt) ==
    LET n == eff.num * MAX_INTAKE_RATE * (dt \div Tenths(1))
        d == eff.den * TOTAL_BALLS * 10
    IN  n \div GCD(n, d)
RateDen(eff, dt) ==
    LET n == eff.num * MAX_INTAKE_RATE * (dt \div Tenths(1))
        d == eff.den * TOTAL_BALLS * 10
    IN  d \div GCD(n, d)

\* C7 (Intake capping): in one step a robot that is Intaking with a positive
\* cooldown gains min(rate * dt, capacity - inventory, balls of its zone),
\* rate = intake_efficiency * (balls / TOTAL_BALLS) * MAX_INTAKE_RATE with the
\* balls of before the transfer, and its zone loses that amount.
C7_IntakeCapping ==
    [][\A i \in RobotIdx :
         ( /\ StepCalled /\ OthersIdle(i)
           /\ robots[i].current_action = INTAKING
           /\ robots[i].action_cooldown > 0 )
         => LET zone == robots[i].current_zone_name
                balls == zones[zone]
                space == robots[i].capacity - robots[i].inventory
                n == RateNum(robots[i].intake_efficiency, time' - time)
                d == RateDen(robots[i].intake_efficiency, time' - time)
                gain == robots'[i].inventory - robots[i].inventory
            IN  /\ IF balls * n <= space * d /\ balls * n <= balls * d
                   THEN gain * d = balls * n
                   ELSE gain = Min(space, balls)
                /\ zones'[zone] = balls - gain]_vars

\* a step of 1 s has left an emptied robot in Neutral with exactly
\* rate * dt, the rate from the balls Neutral held before the transfer
C7_Witness ==
    /\ last_call.op = "step" /\ last_call.arg = Seconds(1)
    /\ \E i \in RobotIdx :
         LET bot == robots[i]
         IN  /\ bot.current_zone_name = ZONE_NEUTRAL
             /\ bot.inventory > 0
             /\ bot.inventory < bot.capacity
             /\ bot.inventory * bot.intake_efficiency.den * TOTAL_BALLS
                  = bot.intake_efficiency.num * MAX_INTAKE_RATE
                      * (zones[ZONE_NEUTRAL] + bot.inventory)

\* the single robot of the concrete scenario, Intaking for 1.0 s in `zone`
\* after intake(duration=1.0), Neutral holding 496 balls
C8_Scenario(zone) ==
    /\ Len(robots) = 1
    /\ last_call = [op |-> "intake", idx |-> 1, arg |-> Seconds(1)]
    /\ robots[1].capacity = Balls(30)
    /\ robots[1].intake_efficiency = [num |-> 1, den |-> 1]
    /\ robots[1].inventory = Balls(8)
    /\ robots[1].current_zone_name = zone
    /\ robots[1].current_action = INTAKING
    /\ robots[1].action_cooldown = Seconds(1)
    /\ zones[ZONE_NEUTRAL] = Balls(496)

\* step(1.0) gives the robot 1.0 * (496 / 504) * 6.0 balls out of Neutral and
\* leaves it Idle
C8_Outcome ==
    LET gain == robots'[1].inventory - robots[1].inventory
    IN  /\ gain * TOTAL_BALLS = MAX_INTAKE_RATE * Balls(496)
        /\ zones'[ZONE_NEUTRAL] = zones[ZONE_NEUTRAL] - gain
        /\ robots'[1].current_action = IDLE

\* C8 as stated (Concrete scenario): the robot starts in Red with inventory
\* 8; intake(1.0) and then one step(1.0) raise its inventory by
\* 1.0 * (496/504) * 6.0, lower Neutral by as much, and leave it Idle.
C8_AsStated ==
    [][(C8_Scenario(ZONE_RED) /\ history_len = 0
          /\ StepCalled /\ time' - time = Seconds(1))
       => C8_Outcome]_vars

\* C8 as amended: the same for the robot standing in Neutral, the zone that
\* holds the 496 balls.
C8_InNeutral ==
    [][(C8_Scenario(ZONE_NEUTRAL) /\ StepCalled /\ time' - time = Seconds(1))
       => C8_Outcome]_vars

\* the scenario's robot, in Neutral, after its intake(1.0) and step(1.0)
C8_Witness ==
    /\ Len(robots) = 1
    /\ last_call = [op |-> "step", idx |-> 0, arg |-> Seconds(1)]
    /\ robots[1].capacity = Balls(30)
    /\ robots[1].current_zone_name = ZONE_NEUTRAL
    /\ robots[1].current_action = IDLE
    /\ (robots[1].inventory - Balls(8)) * TOTAL_BALLS = MAX_INTAKE_RATE * Balls(496)
    /\ zones[ZONE_NEUTRAL] = Balls(496) - (robots[1].inventory - Balls(8))

\* C9 (Shoot/pass zone rule): for a robot that is not busy, shoot is accepted
\* if and only if its current zone is its home zone, and pass if and only if
\* its current zone is not its home zone.
C9_ShootPassZoneRule ==
    [][\A i \in RobotIdx :
         (~is_busy(robots[i]) /\ last_call'.idx = i)
         => LET home == robots[i].current_zone_name = robots[i].start_zone
            IN  /\ last_call'.op = "shoot"
                     => ((robots'[i].current_action = SHOOTING) <=> home)
                /\ last_call'.op = "pass"
                     => ((robots'[i].current_action = PASSING) <=> ~home)]_vars

\* the last call was a shoot on a robot that is away from home and still idle
C9_Witness ==
    /\ last_call.op = "shoot"
    /\ robots[last_call.idx].current_zone_name /= robots[last_call.idx].start_zone
    /\ robots[last_call.idx].current_action = IDLE
    /\ ~is_busy(robots[last_call.idx])

\* the command that last_call' records is one the engine rejects in the
\* current state: the robot is busy, or the move is Red <-> Blue, or the shoot
\* is away from home, or the pass is at home
Rejected(i) ==
    /\ last_call'.op \in Commands
    /\ last_call'.idx = i
    /\ \/ is_busy(robots[i])
       \/ /\ last_call'.op = "move"
          /\ \/ robots[i].current_zone_name = ZONE_RED /\ last_call'.arg = ZONE_BLUE
             \/ robots[i].current_zone_name = ZONE_BLUE /\ last_call'.arg = ZONE_RED
       \/ /\ last_call'.op = "shoot"
          /\ robots[i].current_zone_name /= robots[i].start_zone
       \/ /\ last_call'.op = "pass"
          /\ robots[i].current_zone_name = robots[i].start_zone

\* C10 (Silent rejection): a rejected command leaves the whole engine state
\* as it was: time, zones, scores, hub status, history and every robot.
C10_SilentRejection ==
    [][\A i \in RobotIdx :
         Rejected(i)
         => UNCHANGED <<time, zones, robots, red_hub_status, blue_hub_status,
                        red_score, blue_score, history, history_len>>]_vars

\* the last call was a pass on a robot that is idle in its home zone, in a
\* match that has been stepped
C10_Witness ==
    /\ last_call.op = "pass"
    /\ history_len > 0
    /\ robots[last_call.idx].current_zone_name = robots[last_call.idx].start_zone
    /\ robots[last_call.idx].current_action = IDLE
    /\ ~is_busy(robots[last_call.idx])

\* C11 (non-positive dt): a step called with dt <= 0 raises and is no step:
\* the time does not change, no snapshot is appended and no robot changes
\* (so no cooldown grows).
C11_NonPositiveDtFails ==
    [][ (last_call'.op = "step" /\ last_call'.arg <= 0)
        => /\ raised' /= ""
           /\ time' = time
           /\ history_len' = history_len
           /\ robots' = robots ]_vars

\* C12 (robot index): a command whose robot index is not a place of the
\* list (Python's 0..N-1, here 1..N), a negative index included, raises and
\* changes no robot.
C12_BadIndexFails ==
    [][ (last_call'.op \in Commands /\ last_call'.idx \notin 1..Len(robots))
        => /\ raised' /= ""
           /\ robots' = robots ]_vars

\* C13 (capacity): no robot of the engine's list has a capacity <= 0.
C13_CapacityPositive ==
    \A i \in RobotIdx : robots[i].capacity > 0

C15_HistoryAppend ==
    /\ [](Len(history) = history_len)
    /\ [][ IF last_call'.op = "step"
           THEN /\ Len(history') = Len(history) + 1
                /\ SubSeq(history', 1, Len(history)) = history
                /\ LET h == history'[Len(history')]
                   IN  /\ h.time = time'
                       /\ h.red = zones'[ZONE_RED]
                       /\ h.neutral = zones'[ZONE_NEUTRAL]
                       /\ h.blue = zones'[ZONE_BLUE]
                       /\ Len(h.robot_states) = Len(robots')
                       /\ \A i \in 1..Len(robots') :
                            h.robot_states[i] =
                              [ robot_idx |-> i,
                                team |-> robots'[i].team,
                                zone |-> robots'[i].current_zone_name,
                                action |-> robots'[i].current_action,
                                inventory |-> robots'[i].inventory,
                                cooldown |-> robots'[i].action_cooldown ]
                       /\ h.hub_red = red_hub_status'
                       /\ h.hub_blue = blue_hub_status'
                       /\ h.score_red = red_score'
                       /\ h.score_blue = blue_score'
           ELSE history' = history ]_vars

\* two snapshots are recorded, the second after a shot was scored and a
\* robot changed zone since the first, and a command was given after them
C15_Witness ==
    /\ Len(history) = 2
    /\ last_call.op \in Commands
    /\ history[1].time < history[2].time
    /\ history[1].score_red + history[1].score_blue
         < history[2].score_red + history[2].score_blue
    /\ \E i \in RobotIdx :
         history[1].robot_states[i].zone /= history[2].robot_states[i].zone

\* C16 (Scores): both scores are 0 before the first step and never
\* negative, and from each snapshot of the history to the next neither
\* score decreases.
C16_ScoresMonotone ==
    /\ red_score >= 0 /\ blue_score >= 0
    /\ (history_len = 0 => red_score = 0 /\ blue_score = 0)
    /\ \A k \in 1..Len(history) :
         /\ history[k].score_red >= 0 /\ history[k].score_blue >= 0
         /\ k < Len(history)
              => /\ history[k].score_red <= history[k + 1].score_red
                 /\ history[k].score_blue <= history[k + 1].score_blue
    /\ Len(history) > 0
         => /\ history[Len(history)].score_red <= red_score
            /\ history[Len(history)].score_blue <= blue_score

\* Red had scored at the first snapshot and Blue scored between the first
\* and the second
C16_Witness ==
    /\ Len(history) = 2
    /\ history[1].score_red > 0
    /\ history[2].score_red = history[1].score_red
    /\ history[2].score_blue > history[1].score_blue

\* C17 (Move semantics): an accepted move (robot free, no Red <-> Blue)
\* sets the action to MovingTo(target) and the cooldown to transit_time and
\* keeps the zone; a step shorter than the cooldown of a moving robot keeps
\* its zone and action, the step in which the cooldown reaches zero puts
\* the robot in the target zone, Idle; a zone changes in no other way.
C17_MoveSemantics ==
    [][\A i \in RobotIdx :
         LET bot == robots[i]
             target == last_call'.arg
         IN  /\ ( /\ last_call'.op = "move" /\ last_call'.idx = i
                  /\ ~is_busy(bot)
                  /\ {bot.current_zone_name, target} /= {ZONE_RED, ZONE_BLUE} )
                => /\ robots'[i].current_action = MovingTo(target)
                   /\ robots'[i].action_cooldown = bot.transit_time
                   /\ robots'[i].current_zone_name = bot.current_zone_name
             /\ ( /\ StepCalled
                  /\ IsMoving(bot.current_action)
                  /\ bot.action_cooldown > 0 )
                => IF time' - time >= bot.action_cooldown
                   THEN /\ robots'[i].current_zone_name = MoveTarget(bot.current_action)
                        /\ robots'[i].current_action = IDLE
                        /\ robots'[i].action_cooldown = 0
                   ELSE /\ robots'[i].current_zone_name = bot.current_zone_name
                        /\ robots'[i].current_action = bot.current_action
                        /\ robots'[i].action_cooldown
                             = bot.action_cooldown - (time' - time)
             /\ robots'[i].current_zone_name /= bot.current_zone_name
                => /\ Completes(i)
                   /\ IsMoving(bot.current_action)
                   /\ robots'[i].current_zone_name = MoveTarget(bot.current_action)
       ]_vars

\* the first step of the match completed a move: the robot stands Idle in
\* a zone that is not its starting zone
C17_Witness ==
    /\ last_call.op = "step"
    /\ history_len = 1
    /\ \E i \in RobotIdx :
         /\ robots[i].current_zone_name /= robots[i].start_zone
         /\ robots[i].current_action = IDLE
         /\ robots[i].action_cooldown = 0

\* C18 (Pass completion): when a Passing action completes in a step, the
\* robot's inventory becomes 0 and the zone of its alliance grows by the
\* inventory it held, whatever the hub statuses; the other two zones and
\* both scores are unchanged.
C18_PassCompletion ==
    [][\A i \in RobotIdx :
         (Completes(i) /\ robots[i].current_action = PASSING /\ OthersIdle(i))
         => LET count == robots[i].inventory
                own == IF robots[i].team = "Red" THEN ZONE_RED ELSE ZONE_BLUE
            IN  /\ robots'[i].inventory = 0
                /\ zones'[own] = zones[own] + count
                /\ \A z \in ZoneNames \ {own} : zones'[z] = zones[z]
                /\ red_score' = red_score
                /\ blue_score' = blue_score]_vars

\* after a step a robot stands empty outside its zone, its alliance's zone
\* holds balls and its alliance's hub is Inactive
C18_Witness ==
    /\ last_call.op = "step"
    /\ history_len = 2
    /\ \E i \in RobotIdx :
         LET red == robots[i].team = "Red"
         IN  /\ robots[i].inventory = 0
             /\ robots[i].current_action = IDLE
             /\ robots[i].current_zone_name = ZONE_NEUTRAL
             /\ zones[IF red THEN ZONE_RED ELSE ZONE_BLUE] > 0
             /\ (IF red THEN red_hub_status ELSE blue_hub_status) = HUB_INACTIVE

\* the i-th robot is Intaking with a positive cooldown in zone z
IntakesFrom(i, z) ==
    /\ robots[i].current_action = INTAKING
    /\ robots[i].action_cooldown > 0
    /\ robots[i].current_zone_name = z

\* the change of zone z's balls by the i-th robot in a step: what its
\* completing shot or pass delivers less what its intake draws
ZoneEffect(i, z) ==
    IF IntakesFrom(i, z)
    THEN robots[i].inventory - robots'[i].inventory
    ELSE IF Completes(i) /\ robots[i].current_action = SHOOTING /\ z = ZONE_NEUTRAL
    THEN robots[i].inventory
    ELSE IF /\ Completes(i) /\ robots[i].current_action = PASSING
            /\ z = (IF robots[i].team = "Red" THEN ZONE_RED ELSE ZONE_BLUE)
    THEN robots[i].inventory
    ELSE 0

\* the balls of zone z once the first n robots of the list are processed
RECURSIVE BallsAfter(_, _)
BallsAfter(n, z) ==
    IF n = 0 THEN zones[z] ELSE BallsAfter(n - 1, z) + ZoneEffect(n, z)

\* C19 (Resolution order): in a step the robots are processed in list
\* order: an intaking robot's gain is min(rate * dt, space, balls) for the
\* balls its zone holds once the effects of the robots before it in the
\* list (and of none after it) are applied, and each zone ends with the
\* effects of all robots applied.
C19_ResolutionOrder ==
    [][StepCalled =>
         /\ \A i \in RobotIdx :
              IntakesFrom(i, robots[i].current_zone_name)
              => LET balls == BallsAfter(i - 1, robots[i].current_zone_name)
                     space == robots[i].capacity - robots[i].inventory
                     n == RateNum(robots[i].intake_efficiency, time' - time)
                     d == RateDen(robots[i].intake_efficiency, time' - time)
                     gain == robots'[i].inventory - robots[i].inventory
                 IN  IF balls * n <= space * d /\ balls * n <= balls * d
                     THEN gain * d = balls * n
                     ELSE gain = Min(space, balls)
         /\ \A z \in ZoneNames : zones'[z] = BallsAfter(Len(robots), z)]_vars

\* between the first snapshot and the second, the first robot's shot put
\* its magazine into Neutral and the second robot, intaking in Neutral for
\* 1 s, gained 6/504 of Neutral's balls with that magazine counted in
C19_Witness ==
    /\ Len(history) = 2
    /\ Len(robots) = 2
    /\ history[2].time - history[1].time = Seconds(1)
    /\ LET a == history[1]
           b == history[2]
       IN  /\ a.robot_states[1].inventory > 0
           /\ b.robot_states[1].inventory = 0
           /\ b.red = a.red /\ b.blue = a.blue
           /\ b.robot_states[2].zone = ZONE_NEUTRAL
           /\ (b.robot_states[2].inventory - a.robot_states[2].inventory) * TOTAL_BALLS
                = (a.neutral + a.robot_states[1].inventory) * MAX_INTAKE_RATE

\* C20 (Commands only set intent): a command changes nothing but the
\* current_action and action_cooldown of the robot it names: the time, the
\* zones, the scores, the hub statuses, the history, that robot's other
\* fields and every other robot stay as they are; what changes any of
\* these is a step.
C20_CommandsOnlySetIntent ==
    [][ /\ last_call'.op \in Commands
          => /\ UNCHANGED <<time, zones, red_score, blue_score, red_hub_status,
                            blue_hub_status, history, history_len>>
             /\ \A j \in RobotIdx \ {last_call'.idx} : robots'[j] = robots[j]
             /\ LET i == last_call'.idx
                IN  robots'[i] =
                      [robots[i] EXCEPT
                         !.current_action = robots'[i].current_action,
                         !.action_cooldown = robots'[i].action_cooldown]
        /\ ( \/ <<time, zones, red_score, blue_score, red_hub_status,
                   blue_hub_status, history, history_len>>' /=
                 <<time, zones, red_score, blue_score, red_hub_status,
                   blue_hub_status, history, history_len>>
             \/ \E i \in RobotIdx :
                  \/ robots'[i].current_zone_name /= robots[i].current_zone_name
                  \/ robots'[i].inventory /= robots[i].inventory )
          => last_call'.op = "step" ]_vars

\* a shot was accepted for a robot holding balls while the other robot was
\* busy
C20_Witness ==
    /\ last_call.op = "shoot"
    /\ Len(robots) = 2
    /\ LET i == last_call.idx
       IN  /\ robots[i].current_action = SHOOTING
           /\ robots[i].action_cooldown > 0
           /\ robots[i].inventory > 0
           /\ \E j \in RobotIdx \ {i} : is_busy(robots[j])

\* C21 (Action state machine): a robot's current_action leaves Idle only
\* through a command that names the robot, and leaves a non-Idle action only
\* for Idle and only in a step; it never goes from one non-Idle action to
\* another.
C21_ActionStateMachine ==
    [][\A i \in RobotIdx :
         LET a == robots[i].current_action
             b == robots'[i].current_action
         IN  a /= b
             => \/ /\ a = IDLE
                   /\ last_call'.op \in Commands
                   /\ last_call'.idx = i
                \/ /\ a /= IDLE
                   /\ b = IDLE
                   /\ last_call'.op = "step"]_vars

\* C22 (Idle/cooldown coupling): every robot has action_cooldown >= 0, and
\* its current_action is Idle exactly when its action_cooldown is 0.
C22_IdleCooldownCoupling ==
    \A i \in RobotIdx :
      /\ robots[i].action_cooldown >= 0
      /\ (robots[i].current_action = IDLE) <=> (robots[i].action_cooldown = 0)

\* the zone of an alliance
TeamZone(team) == IF team = "Red" THEN ZONE_RED ELSE ZONE_BLUE

\* C23 (Home zone): the home zone of shoot and pass is the zone of the
\* robot's alliance, whatever zone the robot started in: a shot is accepted
\* only from a robot standing in its alliance's zone, and a pass only from a
\* robot standing outside it.
C23_HomeIsAllianceZone ==
    [][\A i \in RobotIdx :
         LET bot == robots[i]
             accepted == /\ last_call'.idx = i
                         /\ ~is_busy(bot)
                         /\ is_busy(robots'[i])
         IN  /\ (accepted /\ last_call'.op = "shoot")
                  => bot.current_zone_name = TeamZone(bot.team)
             /\ (accepted /\ last_call'.op = "pass")
                  => bot.current_zone_name /= TeamZone(bot.team)]_vars

\* the hub statuses <<red, blue>> of the schedule at time t, prev being the
\* statuses of before: both Active up to AUTO_DURATION and in the last 30 s,
\* prev up to SHIFT_START_TIME, then Red alone and Blue alone in turn for
\* SHIFT_DURATION each
HubsAt(t, prev) ==
    IF t <= Seconds(AUTO_DURATION) \/ t >= Seconds(MATCH_DURATION - 30)
    THEN <<HUB_ACTIVE, HUB_ACTIVE>>
    ELSE IF t < Seconds(SHIFT_START_TIME) THEN prev
    ELSE IF ((t - Seconds(SHIFT_START_TIME)) \div Seconds(SHIFT_DURATION)) % 2 = 0
    THEN <<HUB_ACTIVE, HUB_INACTIVE>>
    ELSE <<HUB_INACTIVE, HUB_ACTIVE>>

\* C24 (Step order): a step adds dt to the time, sets the hub statuses to
\* those of the schedule at the new time, and then processes the robots: a
\* shot completing in the step adds the inventory to its alliance's score
\* exactly when that alliance's new status, the one the step's snapshot
\* records, is Active.
C24_StepOrder ==
    [][StepCalled =>
         /\ time' = time + last_call'.arg
         /\ <<red_hub_status', blue_hub_status'>>
              = HubsAt(time', <<red_hub_status, blue_hub_status>>)
         /\ history'[Len(history')].time = time'
         /\ history'[Len(history')].hub_red = red_hub_status'
         /\ history'[Len(history')].hub_blue = blue_hub_status'
         /\ \A i \in RobotIdx :
              (Completes(i) /\ robots[i].current_action = SHOOTING /\ OthersIdle(i))
              => LET red == robots[i].team = "Red"
                     hub == IF red THEN red_hub_status' ELSE blue_hub_status'
                     gained == IF red THEN red_score' - red_score
                               ELSE blue_score' - blue_score
                 IN  gained = IF hub = HUB_ACTIVE THEN robots[i].inventory ELSE 0
       ]_vars

\* the third step of the match left time = 55 and Red Inactive, and the Red
\* robot stands empty with every ball in Neutral and no score: its shot was
\* commanded while Red was Active (as it is at every earlier time) and
\* completed in the step that made Red Inactive
C24_Witness ==
    /\ last_call.op = "step"
    /\ history_len = 3
    /\ time = Seconds(55)
    /\ red_hub_status = HUB_INACTIVE
    /\ history[Len(history)].hub_red = HUB_INACTIVE
    /\ robots[1].team = "Red"
    /\ robots[1].inventory = 0
    /\ red_score = 0
    /\ zones[ZONE_NEUTRAL] = Balls(TOTAL_BALLS)

\* C25 (Falling-edge completion): in a step, a robot whose cooldown was
\* positive and is used up by dt ends Idle with cooldown 0 and has the
\* effect of the action it had before the step (a move puts it in the
\* target zone, a shot or a pass empties it into Neutral or its alliance's
\* zone, an intake has no further effect); a robot whose cooldown stays
\* positive keeps its action, zone and, unless it intakes, its inventory;
\* a robot whose cooldown was 0 is not changed at all.
C25_FallingEdge ==
    [][StepCalled =>
         \A i \in RobotIdx :
           LET bot == robots[i]
               new == robots'[i]
               dt == time' - time
               act == bot.current_action
               own == TeamZone(bot.team)
           IN  IF bot.action_cooldown > 0 /\ dt >= bot.action_cooldown
               THEN /\ new.action_cooldown = 0
                    /\ new.current_action = IDLE
                    /\ IsMoving(act)
                         => /\ new.current_zone_name = MoveTarget(act)
                            /\ new.inventory = bot.inventory
                    /\ act = SHOOTING
                         => /\ new.inventory = 0
                            /\ new.current_zone_name = bot.current_zone_name
                            /\ OthersIdle(i)
                                 => zones'[ZONE_NEUTRAL]
                                      = zones[ZONE_NEUTRAL] + bot.inventory
                    /\ act = PASSING
                         => /\ new.inventory = 0
                            /\ new.current_zone_name = bot.current_zone_name
                            /\ OthersIdle(i)
                                 => zones'[own] = zones[own] + bot.inventory
                    /\ act = INTAKING
                         => new.current_zone_name = bot.current_zone_name
               ELSE IF bot.action_cooldown > 0
               THEN /\ new.action_cooldown = bot.action_cooldown - dt
                    /\ new.current_action = act
                    /\ new.current_zone_name = bot.current_zone_name
                    /\ act /= INTAKING => new.inventory = bot.inventory
                    /\ OthersIdle(i)
                         => /\ red_score' = red_score
                            /\ blue_score' = blue_score
                            /\ act /= INTAKING => zones' = zones
               ELSE /\ new = bot
                    /\ OthersIdle(i)
                         => /\ red_score' = red_score
                            /\ blue_score' = blue_score
                            /\ zones' = zones]_vars

\* two steps of 5 s were made and a robot whose shot takes 8 s stands empty
\* with its magazine scored: the shot, commanded at time 0, was left alone
\* by the first step and resolved by the second
C25_Witness ==
    /\ last_call.op = "step"
    /\ history_len = 2
    /\ time = Seconds(10)
    /\ \E i \in RobotIdx :
         /\ robots[i].balls_shot_per_sec = 0
         /\ robots[i].inventory = 0
         /\ robots[i].current_action = IDLE
         /\ blue_score = Balls(InitialInventory)

\* C26 (Hub status by time alone): after any step the two hub statuses are
\* one fixed function of the time the step left, so two steps that leave
\* the same time leave the same statuses; the last snapshot records them.
C26_HubStatusByTime ==
    history_len > 0
    => /\ <<red_hub_status, blue_hub_status>>
            = HubsAt(time, <<HUB_ACTIVE, HUB_ACTIVE>>)
       /\ LET h == history[Len(history)]
          IN  <<h.hub_red, h.hub_blue>> = HubsAt(h.time, <<HUB_ACTIVE, HUB_ACTIVE>>)

\* the third step of the match left time = 130 with both hubs Active; the
\* step before it had left one hub Inactive
C26_Witness ==
    /\ last_call.op = "step"
    /\ history_len = 3
    /\ time = Seconds(130)
    /\ red_hub_status = HUB_ACTIVE
    /\ blue_hub_status = HUB_ACTIVE

\* time t lies strictly between AUTO_DURATION and SHIFT_START_TIME
InGap(t) == t > Seconds(AUTO_DURATION) /\ t < Seconds(SHIFT_START_TIME)

\* C27 (Hub gap): a step that leaves the time strictly between
\* AUTO_DURATION and SHIFT_START_TIME leaves both hub statuses as they were;
\* and at every time below SHIFT_START_TIME, in the state and in every
\* snapshot, both hubs are Active.
C27_HubGapCarryForward ==
    /\ [][(StepCalled /\ InGap(time'))
            => /\ red_hub_status' = red_hub_status
               /\ blue_hub_status' = blue_hub_status]_vars
    /\ [](/\ time < Seconds(SHIFT_START_TIME)
             => red_hub_status = HUB_ACTIVE /\ blue_hub_status = HUB_ACTIVE
          /\ \A k \in 1..Len(history) :
               history[k].time < Seconds(SHIFT_START_TIME)
               => history[k].hub_red = HUB_ACTIVE /\ history[k].hub_blue = HUB_ACTIVE)

\* the second step of the match left time = 26, in the gap, after the
\* first had left time = 25, in the gap too: both hubs are Active
C27_Witness ==
    /\ last_call.op = "step"
    /\ history_len = 2
    /\ time = Seconds(26)
    /\ InGap(time)
    /\ red_hub_status = HUB_ACTIVE
    /\ blue_hub_status = HUB_ACTIVE

\* C28 (Shoot and pass duration): an accepted shoot or pass (robot free, at
\* home for a shoot and away from home for a pass) sets the action and sets
\* the cooldown to inventory / r seconds, r the shot rate if it is positive
\* and 1 otherwise, or to 0.1 s if that is less; so the cooldown is at
\* least 0.1 s.
C28_ShotDuration ==
    [][\A i \in RobotIdx :
         LET bot == robots[i]
             at_home == bot.current_zone_name = bot.start_zone
             r == IF bot.balls_shot_per_sec > 0 THEN bot.balls_shot_per_sec ELSE 1
             per_ball == TicksPerSecond \div BallScale
             cd == robots'[i].action_cooldown
         IN  ( /\ last_call'.idx = i
               /\ ~is_busy(bot)
               /\ \/ last_call'.op = "shoot" /\ at_home
                  \/ last_call'.op = "pass" /\ ~at_home )
             => /\ robots'[i].current_action
                     = (IF last_call'.op = "shoot" THEN SHOOTING ELSE PASSING)
                /\ IF bot.inventory * per_ball >= Tenths(1) * r
                   THEN cd * r = bot.inventory * per_ball
                   ELSE cd = Tenths(1)
                /\ cd >= Tenths(1)]_vars

\* an empty robot without a shot rate has had its shot accepted, for 0.1 s
C28_Witness ==
    /\ last_call.op = "shoot"
    /\ \E i \in RobotIdx :
         /\ last_call.idx = i
         /\ robots[i].balls_shot_per_sec = 0
         /\ robots[i].inventory = 0
         /\ robots[i].current_action = SHOOTING
         /\ robots[i].action_cooldown = Tenths(1)

\* C29 (Intake accepted unconditionally): an intake for a robot that is not
\* busy sets the action to Intaking and the cooldown to the duration and
\* nothing else, whatever the robot's zone holds and however full the robot
\* is; in a step a busy intaking robot that is full, or whose zone is
\* empty, transfers nothing and its cooldown runs down by dt.
C29_IntakeUnconditional ==
    [][\A i \in RobotIdx :
         LET bot == robots[i]
             zone == bot.current_zone_name
             dt == time' - time
         IN  /\ (last_call'.op = "intake" /\ last_call'.idx = i /\ ~is_busy(bot))
                  => robots'[i] = [bot EXCEPT !.current_action = INTAKING,
                                              !.action_cooldown = last_call'.arg]
             /\ ( /\ StepCalled
                  /\ IntakesFrom(i, zone)
                  /\ (zones[zone] = 0 \/ bot.inventory = bot.capacity) )
                  => /\ robots'[i].inventory = bot.inventory
                     /\ OthersIdle(i) => zones' = zones
                     /\ IF dt < bot.action_cooldown
                        THEN /\ robots'[i].current_action = INTAKING
                             /\ robots'[i].action_cooldown = bot.action_cooldown - dt
                        ELSE /\ robots'[i].current_action = IDLE
                             /\ robots'[i].action_cooldown = 0]_vars

\* an intake of positive duration has been accepted for a full robot
C29_Witness ==
    /\ last_call.op = "intake"
    /\ last_call.arg > 0
    /\ \E i \in RobotIdx :
         /\ last_call.idx = i
         /\ robots[i].inventory = robots[i].capacity
         /\ robots[i].current_action = INTAKING
         /\ robots[i].action_cooldown = last_call.arg

\* C30 (Only intake and completion move resources): in a step, a robot
\* that neither intakes with a positive cooldown nor completes an action
\* keeps its inventory, zone and action; a zone's balls change only if a
\* robot intakes from it or a shot or pass completes, a score only if a
\* shot completes; and a step in which no robot intakes or completes
\* leaves zones, scores, inventories and robot zones as they were.
C30_OnlyIntakeAndCompletion ==
    [][StepCalled =>
         LET Quiet(i) == /\ ~IntakesFrom(i, robots[i].current_zone_name)
                         /\ ~Completes(i)
         IN  /\ \A i \in RobotIdx :
                  Quiet(i)
                  => robots'[i] =
                       [robots[i] EXCEPT
                          !.action_cooldown = robots'[i].action_cooldown]
             /\ \A i \in RobotIdx :
                  ~Completes(i)
                  => robots'[i].current_zone_name = robots[i].current_zone_name
             /\ \A z \in ZoneNames :
                  zones'[z] /= zones[z]
                  => \E i \in RobotIdx :
                       \/ IntakesFrom(i, z)
                       \/ /\ Completes(i)
                          /\ robots[i].current_action \in {SHOOTING, PASSING}
             /\ (red_score' /= red_score \/ blue_score' /= blue_score)
                  => \E i \in RobotIdx :
                       Completes(i) /\ robots[i].current_action = SHOOTING
             /\ (\A i \in RobotIdx : Quiet(i))
                  => /\ zones' = zones
                     /\ red_score' = red_score
                     /\ blue_score' = blue_score]_vars

\* a step has left a robot Shooting, still busy and with its magazine, no
\* ball having moved since the match began
C30_Witness ==
    /\ last_call.op = "step"
    /\ red_score = 0 /\ blue_score = 0
    /\ zones[ZONE_RED] = 0 /\ zones[ZONE_BLUE] = 0
    /\ \E i \in RobotIdx :
         /\ robots[i].current_action = SHOOTING
         /\ robots[i].action_cooldown > 0
         /\ robots[i].inventory = Balls(InitialInventory)

\* the smallest dt a step is called with
MinDt == Tenths(CHOOSE d \in DtChoices : \A e \in DtChoices : d <= e)

C32_NoRedBlueJump ==
    /\ [](\A k \in 1..(Len(history) - 1) :
            \A i \in 1..Len(history[k].robot_states) :
              LET from == history[k].robot_states[i].zone
                  to == history[k + 1].robot_states[i].zone
              IN  from /= to => ZONE_NEUTRAL \in {from, to})
    /\ [][\A i \in RobotIdx :
            LET from == robots[i].current_zone_name
                to == robots'[i].current_zone_name
            IN  from /= to => ZONE_NEUTRAL \in {from, to}]_vars

\* of two robots, one was in its alliance's zone at the first snapshot and
\* in Neutral at the second, the other in Neutral at the first and in its
\* alliance's zone at the second
C32_Witness ==
    /\ Len(history) = 2
    /\ \E i, j \in RobotIdx :
         /\ history[1].robot_states[i].zone = TeamZone(robots[i].team)
         /\ history[2].robot_states[i].zone = ZONE_NEUTRAL
         /\ history[1].robot_states[j].zone = ZONE_NEUTRAL
         /\ history[2].robot_states[j].zone = TeamZone(robots[j].team)

\* C33 (Intake bounded by its duration): a step of dt >= D made right after
\* an accepted intake of duration D > 0, which covers the whole action,
\* gives the robot no more than intake_efficiency * MAX_INTAKE_RATE * D.
C33_IntakeBoundedByDuration ==
    [][\A i \in RobotIdx :
         LET bot == robots[i]
             D == last_call.arg
             gain == robots'[i].inventory - bot.inventory
         IN  ( /\ StepCalled
               /\ last_call.op = "intake" /\ last_call.idx = i
               /\ bot.current_action = INTAKING
               /\ bot.action_cooldown = D
               /\ D > 0
               /\ time' - time >= D )
             => gain * bot.intake_efficiency.den * (TicksPerSecond \div BallScale)
                  <= bot.intake_efficiency.num * MAX_INTAKE_RATE * D]_vars

\* C34 (One hub always Active): the hubs are never both Inactive; both are
\* Active at every time below 30 s and from 130 s on, and exactly one is
\* Active from 30 s to below 130 s, in the state and in every snapshot.
C34_SomeHubActive ==
    LET Sound(t, red, blue) ==
          /\ HUB_ACTIVE \in {red, blue}
          /\ {red, blue} \subseteq {HUB_ACTIVE, HUB_INACTIVE}
          /\ IF t < Seconds(SHIFT_START_TIME) \/ t >= Seconds(MATCH_DURATION - 30)
             THEN red = HUB_ACTIVE /\ blue = HUB_ACTIVE
             ELSE red /= blue
    IN  /\ Sound(time, red_hub_status, blue_hub_status)
        /\ \A k \in 1..Len(history) :
             Sound(history[k].time, history[k].hub_red, history[k].hub_blue)

\* two steps were made after the match's end, at 200 s and 300 s, and both
\* hubs are Active
C34_Witness ==
    /\ last_call.op = "step"
    /\ history_len = 3
    /\ time = Seconds(300)
    /\ history[Len(history)].hub_red = HUB_ACTIVE
    /\ history[Len(history)].hub_blue = HUB_ACTIVE

====
